---- MODULE Spec2Model ----
(***************************************************************************)
(* Model of newspaperbulk.py: main() fills a Queue with (index, url)       *)
(* pairs, starts min(threads, total_urls) daemon threads running           *)
(* target_task, waits on q.join(), then runs clean_up_output and prints    *)
(* the summary.  Each thread loops "while not q.empty(): q.get();          *)
(* get_text_from_url(...); q.task_done()".                                  *)
(*                                                                         *)
(* A URL is identified with its index in the input list.  What the network *)
(* and the article extractor answer for a URL is fixed per run by          *)
(* outcome[i], one of the URL kinds below; it is "unknown" until           *)
(* session.get is first called for the URL and does not change afterwards. *)
(***************************************************************************)
EXTENDS Integers, Sequences, FiniteSets, TLC

MaxURLs == 2
MaxThreads == 2
MaxRetries == 1

(***************************************************************************)
(* URL kinds: what session.get, newspaper.Article and get_date_time do for *)
(* a URL.                                                                  *)
(*   NoScheme       session.get raises MissingSchema                       *)
(*   BadScheme      session.get raises InvalidSchema                       *)
(*   RedirectLoop   session.get raises TooManyRedirects                    *)
(*   BadURL         session.get raises an exception that                   *)
(*                  get_text_from_url does not catch (InvalidURL)          *)
(*   Down           every attempt ends in a connection error               *)
(*   Busy           every attempt is answered 503                          *)
(*   NotFound       answered 404                                           *)
(*   Flaky          first attempt is a connection error, later ones 200;   *)
(*                  the article then has a body and a <time> tag           *)
(*   PageNoDownload answered 200, article.download() fails                 *)
(*   PageNoTime     answered 200, no <time> tag: get_date_time raises      *)
(*   PageEmpty      answered 200, article.text = ""                        *)
(*   PageNA         answered 200, article.text = "NA"                      *)
(*   PageBody       answered 200, article.text = "body"                    *)
(***************************************************************************)
Kinds ==
    {"NoScheme", "BadScheme", "RedirectLoop", "BadURL", "Down", "Busy",
     "NotFound", "Flaky", "PageNoDownload", "PageNoTime", "PageEmpty",
     "PageNA", "PageBody"}

VARIABLES
    total_urls,      \* len(urls)
    args_threads,    \* args.threads
    max_retries,     \* args.max_retries
    outcome,         \* URL index -> kind
    mainpc,          \* position of main()
    files,           \* state of cleanfile and errorfile: "unopened", "open", "closed"
    cleanfile,       \* rows of the -contents.csv file, header first
    errorfile,       \* rows of the -error.csv file, header first
    q,               \* the Queue: sequence of URL indexes
    unfinished,      \* q.unfinished_tasks
    threads,         \* main's local threads
    started,         \* number of Thread.start() calls made
    pc,              \* position of each thread in target_task
    url,             \* each thread's local url (index), -1 when unset
    response,        \* each thread's local response: "unset", "None" or a status text
    attempts,        \* URL index -> requests sent by session.get
    gets,            \* URL index -> number of q.get() calls that returned it
    successful_urls, \* main's local successful_urls, -1 when unset
    downloads,       \* URL index -> requests sent by article.download()
    torn             \* a cleanwriter.writerow call began while another was under way

vars ==
    <<total_urls, args_threads, max_retries, outcome, mainpc, files, cleanfile,
      errorfile, q, unfinished, threads, started, pc, url, response, attempts,
      gets, successful_urls, downloads, torn>>

Workers == 1..MaxThreads
Items == 0..(total_urls - 1)

Min(a, b) == IF a < b THEN a ELSE b

(***************************************************************************)
(* The shared session: Retry(total=max_retries, status_forcelist=...)      *)
(* mounted on an HTTPAdapter.                                              *)
(***************************************************************************)
StatusForcelist == {500, 502, 503, 504}

\* The except clauses without MissingSchema.
CaughtNoMissingSchema ==
    {"ConnectionError", "InvalidSchema", "TooManyRedirects", "RetryError"}

\* The except clauses as a catch-all: InvalidURL is caught as well.
CaughtAll ==
    {"ConnectionError", "InvalidSchema", "MissingSchema", "TooManyRedirects",
     "RetryError", "InvalidURL"}

\* The exception kinds get_text_from_url catches around session.get.
Caught ==
    {"ConnectionError", "InvalidSchema", "MissingSchema", "TooManyRedirects",
     "RetryError"}

\* Exception session.get raises for a URL before any request is sent.
PreSendError(kind) ==
    CASE kind = "NoScheme" -> "MissingSchema"
      [] kind = "BadScheme" -> "InvalidSchema"
      [] kind = "BadURL" -> "InvalidURL"
      [] OTHER -> "none"

\* Does the n-th request sent for a URL of this kind end in a connection error?
ConnError(kind, n) == kind = "Down" \/ (kind = "Flaky" /\ n = 1)

\* Status code of the answer to the n-th request (when it is answered).
Status(kind, n) ==
    CASE kind = "Busy" -> 503
      [] kind = "NotFound" -> 404
      [] OTHER -> 200

\* RetryLeft with one retry budget shared by every request of the session:
\* a retry is left while all URLs together were sent at most max_retries requests.
RECURSIVE SentUpTo(_)
SentUpTo(i) == IF i < 0 THEN 0 ELSE attempts[i] + SentUpTo(i - 1)

RetryLeftShared(n) == SentUpTo(total_urls - 1) < max_retries

\* RetryLeft with the comparison off by one.
RetryLeftOffByOne(n) == n - 1 <= max_retries

\* Retry.increment: a retry is left after n requests iff n - 1 < total.
RetryLeft(n) == n - 1 < max_retries

\* A status code as csv.writer renders it.
StatusText(code) ==
    CASE code = 200 -> "200"
      [] code = 404 -> "404"
      [] code = 503 -> "503"
      [] OTHER -> "other"

\* Values of a thread's local response that are not status codes.
Unset == -1
None == 0

\* Ok that only takes 5xx for a failure.
OkBelow500(code) == code < 500

\* requests.Response.ok: no 4xx or 5xx status.
Ok(code) == code < 400

(***************************************************************************)
(* newspaper.Article and get_date_time.                                    *)
(***************************************************************************)
\* article.download_state after article.download(): 2 is SUCCESS, 1 is FAILED_RESPONSE.
DownloadState(kind) == IF kind = "PageNoDownload" THEN 1 ELSE 2

\* get_date_time raises when the html has no <time> tag.
DateTimeRaises(kind) == kind = "PageNoTime"

\* article.text after parse().
ArticleText(kind) ==
    CASE kind = "PageEmpty" -> ""
      [] kind = "PageNA" -> "NA"
      [] OTHER -> "body"

(***************************************************************************)
(* The two csv files.  A file is its sequence of rows; the header row has  *)
(* url = -1 and holds the column name in the other column.                 *)
(***************************************************************************)
CleanHeader == [url |-> -1, text |-> "text"]
ErrorHeader == [url |-> -1, error |-> "error"]

\* Strings pandas.read_csv reads as NaN (default na_values).
NaValues == {"", "#N/A", "N/A", "NA", "NULL", "NaN", "n/a", "nan", "null"}

NotNa(row) == row.text \notin NaValues

\* pd.read_csv(filename).dropna(subset=['text']): the data rows that are kept.
DropNa(file) == SelectSeq(Tail(file), NotNa)

(***************************************************************************)
(* Initial state: main() has parsed its arguments and read the input.      *)
(***************************************************************************)
Init ==
    /\ total_urls \in 0..MaxURLs
    /\ args_threads \in 0..MaxThreads
    /\ max_retries \in 0..MaxRetries
    /\ outcome = [i \in 0..(total_urls - 1) |-> "unknown"]
    /\ mainpc = "open"
    /\ files = "unopened"
    /\ cleanfile = <<>>
    /\ errorfile = <<>>
    /\ q = <<>>
    /\ unfinished = 0
    /\ threads = 0
    /\ started = 0
    /\ pc = [w \in Workers |-> "unstarted"]
    /\ url = [w \in Workers |-> -1]
    /\ response = [w \in Workers |-> Unset]
    /\ attempts = [i \in 0..(total_urls - 1) |-> 0]
    /\ gets = [i \in 0..(total_urls - 1) |-> 0]
    /\ successful_urls = -1
    /\ downloads = [i \in 0..(total_urls - 1) |-> 0]
    /\ torn = FALSE

(***************************************************************************)
(* main()                                                                  *)
(***************************************************************************)
\* OpenFiles without line 224: the error file gets no header row.
OpenFilesNoErrorHeader ==
    /\ mainpc = "open"
    /\ files' = "open"
    /\ cleanfile' = <<CleanHeader>>
    /\ errorfile' = <<>>
    /\ mainpc' = "populate"
    /\ UNCHANGED <<torn, downloads, total_urls, args_threads, max_retries, outcome,
                   q, unfinished, threads, started, pc, url, response, attempts,
                   gets, successful_urls>>

\* Lines 217-224: open both files and write the header rows.
OpenFiles ==
    /\ mainpc = "open"
    /\ files' = "open"
    /\ cleanfile' = <<CleanHeader>>
    /\ errorfile' = <<ErrorHeader>>
    /\ mainpc' = "populate"
    /\ UNCHANGED <<torn, downloads, total_urls, args_threads, max_retries, outcome, q, unfinished,
                   threads, started, pc, url, response, attempts, gets,
                   successful_urls>>

\* Populate without the min: as many threads as requested.
PopulateNoMin ==
    /\ mainpc = "populate"
    /\ threads' = args_threads
    /\ q' = [n \in 1..total_urls |-> n - 1]
    /\ unfinished' = total_urls
    /\ mainpc' = "launch"
    /\ UNCHANGED <<torn, downloads, total_urls, args_threads, max_retries, outcome, files,
                   cleanfile, errorfile, started, pc, url, response, attempts,
                   gets, successful_urls>>

\* Lines 226-231: create the queue, compute threads, put every (i, urls[i]).
Populate ==
    /\ mainpc = "populate"
    /\ threads' = Min(args_threads, total_urls)
    /\ q' = [n \in 1..total_urls |-> n - 1]
    /\ unfinished' = total_urls
    /\ mainpc' = "launch"
    /\ UNCHANGED <<torn, downloads, total_urls, args_threads, max_retries, outcome, files,
                   cleanfile, errorfile, started, pc, url, response, attempts,
                   gets, successful_urls>>

\* Lines 233-246: one iteration of the loop that starts the threads.
StartThread ==
    /\ mainpc = "launch"
    /\ started < threads
    /\ started' = started + 1
    /\ pc' = [pc EXCEPT ![started + 1] = "check"]
    /\ UNCHANGED <<torn, downloads, total_urls, args_threads, max_retries, outcome, mainpc, files,
                   cleanfile, errorfile, q, unfinished, threads, url, response,
                   attempts, gets, successful_urls>>

\* Join that waits for the queue to be empty instead of for every task_done.
JoinWhenEmpty ==
    /\ mainpc = "launch"
    /\ ~(started < threads)
    /\ q = <<>>
    /\ files' = "closed"
    /\ mainpc' = "reconcile"
    /\ UNCHANGED <<torn, downloads, total_urls, args_threads, max_retries, outcome, cleanfile,
                   errorfile, q, unfinished, threads, started, pc, url, response,
                   attempts, gets, successful_urls>>

\* Line 248: q.join() returns when unfinished_tasks is 0; the with block then
\* closes both files.
Join ==
    /\ mainpc = "launch"
    /\ ~(started < threads)
    /\ unfinished = 0
    /\ files' = "closed"
    /\ mainpc' = "reconcile"
    /\ UNCHANGED <<torn, downloads, total_urls, args_threads, max_retries, outcome, cleanfile,
                   errorfile, q, unfinished, threads, started, pc, url, response,
                   attempts, gets, successful_urls>>

\* Line 250: clean_up_output rewrites the clean file and returns len(df).
clean_up_output ==
    /\ mainpc = "reconcile"
    /\ cleanfile' = <<CleanHeader>> \o DropNa(cleanfile)
    /\ successful_urls' = Len(DropNa(cleanfile))
    /\ mainpc' = "report"
    /\ UNCHANGED <<torn, downloads, total_urls, args_threads, max_retries, outcome, files,
                   errorfile, q, unfinished, threads, started, pc, url, response,
                   attempts, gets>>

\* Lines 251-258: success_rate = successful_urls / total_urls raises
\* ZeroDivisionError when total_urls is 0; otherwise the summary is printed.
Report ==
    /\ mainpc = "report"
    /\ mainpc' = IF total_urls = 0 THEN "crashed" ELSE "reported"
    /\ UNCHANGED <<torn, downloads, total_urls, args_threads, max_retries, outcome, files,
                   cleanfile, errorfile, q, unfinished, threads, started, pc, url,
                   response, attempts, gets, successful_urls>>

(***************************************************************************)
(* target_task and get_text_from_url, run by thread w.                     *)
(***************************************************************************)
\* Line 167: while not q.empty().
Check(w) ==
    /\ pc[w] = "check"
    /\ pc' = [pc EXCEPT ![w] = IF q = <<>> THEN "exited" ELSE "get"]
    /\ UNCHANGED <<torn, downloads, total_urls, args_threads, max_retries, outcome, mainpc, files,
                   cleanfile, errorfile, q, unfinished, threads, started, url,
                   response, attempts, gets, successful_urls>>

\* Get that reads the head of the queue without removing it.
GetPeek(w) ==
    /\ pc[w] = "get"
    /\ q # <<>>
    /\ url' = [url EXCEPT ![w] = Head(q)]
    /\ gets' = [gets EXCEPT ![Head(q)] = @ + 1]
    /\ response' = [response EXCEPT ![w] = Unset]
    /\ pc' = [pc EXCEPT ![w] = "fetch"]
    /\ UNCHANGED <<torn, downloads, total_urls, args_threads, max_retries, outcome, mainpc, files,
                   cleanfile, errorfile, q, unfinished, threads, started, attempts,
                   successful_urls>>

\* Line 169: url = q.get(), which blocks while the queue is empty.
Get(w) ==
    /\ pc[w] = "get"
    /\ q # <<>>
    /\ url' = [url EXCEPT ![w] = Head(q)]
    /\ q' = Tail(q)
    /\ gets' = [gets EXCEPT ![Head(q)] = @ + 1]
    /\ response' = [response EXCEPT ![w] = Unset]
    /\ pc' = [pc EXCEPT ![w] = "fetch"]
    /\ UNCHANGED <<torn, downloads, total_urls, args_threads, max_retries, outcome, mainpc, files,
                   cleanfile, errorfile, unfinished, threads, started, attempts,
                   successful_urls>>

\* Lines 114-128: session.get raised e.  A caught kind is written to the error
\* file and response is None, so lines 130-157 only print; any other kind, or a
\* write to a closed file, ends the thread.
Raise(w, e) ==
    IF e \in Caught /\ files = "open"
    THEN /\ errorfile' = Append(errorfile, [url |-> url[w], error |-> e])
         /\ response' = [response EXCEPT ![w] = None]
         /\ pc' = [pc EXCEPT ![w] = "task_done"]
    ELSE /\ pc' = [pc EXCEPT ![w] = "dead"]
         /\ UNCHANGED <<errorfile, response>>

\* Line 111: session.get, one request per step.  The adapter sends again while
\* the Retry object has retries left and the request ended in a connection error
\* or a status of the forcelist.
Fetch(w) ==
    /\ pc[w] = "fetch"
    /\ \E kind \in (IF outcome[url[w]] = "unknown" THEN Kinds ELSE {outcome[url[w]]}) :
         LET i == url[w]
             n == attempts[i] + 1
         IN /\ outcome' = [outcome EXCEPT ![i] = kind]
            /\ IF PreSendError(kind) # "none"
               THEN /\ Raise(w, PreSendError(kind))
                    /\ UNCHANGED attempts
               ELSE /\ attempts' = [attempts EXCEPT ![i] = n]
                    /\ IF kind = "RedirectLoop"
                       THEN Raise(w, "TooManyRedirects")
                       ELSE IF ConnError(kind, n)
                       THEN IF RetryLeft(n)
                            THEN UNCHANGED <<errorfile, response, pc>>
                            ELSE Raise(w, "ConnectionError")
                       ELSE IF Status(kind, n) \in StatusForcelist
                       THEN IF RetryLeft(n)
                            THEN UNCHANGED <<errorfile, response, pc>>
                            ELSE Raise(w, "RetryError")
                       ELSE /\ response' = [response EXCEPT ![w] = Status(kind, n)]
                            /\ pc' = [pc EXCEPT ![w] = "classify"]
                            /\ UNCHANGED errorfile
    /\ UNCHANGED <<torn, downloads, total_urls, args_threads, max_retries, mainpc, files,
                   cleanfile, q, unfinished, threads, started, url, gets,
                   successful_urls>>

\* Classify whose status branch is not an else: a response that is not OK is
\* written to the error file and is then also handed to newspaper.Article.
ClassifyNoElse(w) ==
    /\ pc[w] = "classify"
    /\ files = "open"
    /\ LET i == url[w]
           kind == outcome[i]
       IN /\ downloads' = [downloads EXCEPT ![i] = @ + 1]
          /\ cleanfile' = Append(cleanfile, [url |-> i, text |-> ArticleText(kind)])
          /\ errorfile' =
               IF Ok(response[w])
               THEN errorfile
               ELSE Append(errorfile, [url |-> i, error |-> StatusText(response[w])])
    /\ pc' = [pc EXCEPT ![w] = "task_done"]
    /\ UNCHANGED <<torn, total_urls, args_threads, max_retries, outcome, mainpc, files,
                   q, unfinished, threads, started, url, response, attempts, gets,
                   successful_urls>>

\* Lines 130-154 with a response: for an OK response newspaper.Article(url_str)
\* requests the URL itself in article.download(), and its row is written when
\* that download succeeded; any other response is written to the error file
\* with its status code.
Classify(w) ==
    /\ pc[w] = "classify"
    /\ downloads' =
         IF Ok(response[w]) THEN [downloads EXCEPT ![url[w]] = @ + 1] ELSE downloads
    /\ LET i == url[w]
           kind == outcome[i]
       IN IF Ok(response[w])
          THEN IF DownloadState(kind) = 2
               THEN IF DateTimeRaises(kind) \/ files # "open"
                    THEN /\ pc' = [pc EXCEPT ![w] = "dead"]
                         /\ UNCHANGED <<cleanfile, errorfile>>
                    ELSE /\ cleanfile' =
                              Append(cleanfile, [url |-> i, text |-> ArticleText(kind)])
                         /\ pc' = [pc EXCEPT ![w] = "task_done"]
                         /\ UNCHANGED errorfile
               ELSE /\ pc' = [pc EXCEPT ![w] = "task_done"]
                    /\ UNCHANGED <<cleanfile, errorfile>>
          ELSE IF files # "open"
               THEN /\ pc' = [pc EXCEPT ![w] = "dead"]
                    /\ UNCHANGED <<cleanfile, errorfile>>
               ELSE /\ errorfile' =
                         Append(errorfile, [url |-> i, error |-> StatusText(response[w])])
                    /\ pc' = [pc EXCEPT ![w] = "task_done"]
                    /\ UNCHANGED cleanfile
    /\ UNCHANGED <<torn, total_urls, args_threads, max_retries, outcome, mainpc, files,
                   q, unfinished, threads, started, url, response, attempts, gets,
                   successful_urls>>

\* TaskDone that marks two items done.
TaskDoneTwice(w) ==
    /\ pc[w] = "task_done"
    /\ unfinished' = unfinished - 2
    /\ pc' = [pc EXCEPT ![w] = "check"]
    /\ url' = [url EXCEPT ![w] = -1]
    /\ response' = [response EXCEPT ![w] = Unset]
    /\ UNCHANGED <<torn, downloads, total_urls, args_threads, max_retries, outcome,
                   mainpc, files, cleanfile, errorfile, q, threads, started,
                   attempts, gets, successful_urls>>

\* Line 180: q.task_done().  The locals url and response are not read again
\* before the next q.get() overwrites them, so they are cleared here.
TaskDone(w) ==
    /\ pc[w] = "task_done"
    /\ unfinished' = unfinished - 1
    /\ pc' = [pc EXCEPT ![w] = "check"]
    /\ url' = [url EXCEPT ![w] = -1]
    /\ response' = [response EXCEPT ![w] = Unset]
    /\ UNCHANGED <<torn, downloads, total_urls, args_threads, max_retries, outcome, mainpc, files,
                   cleanfile, errorfile, q, threads, started, attempts, gets,
                   successful_urls>>

Worker(w) == Check(w) \/ Get(w) \/ Fetch(w) \/ Classify(w) \/ TaskDone(w)

Main == OpenFiles \/ Populate \/ StartThread \/ Join \/ clean_up_output \/ Report

Next ==
    \/ OpenFiles
    \/ Populate
    \/ StartThread
    \/ Join
    \/ clean_up_output
    \/ Report
    \/ \E w \in Workers : Check(w)
    \/ \E w \in Workers : Get(w)
    \/ \E w \in Workers : Fetch(w)
    \/ \E w \in Workers : Classify(w)
    \/ \E w \in Workers : TaskDone(w)

Spec == Init /\ [][Next]_vars

\* Threads and main() are scheduled fairly by the interpreter.
FairSpec == Spec /\ WF_vars(Main) /\ \A w \in Workers : WF_vars(Worker(w))

(***************************************************************************)
(* The same program with cleanwriter.writerow in its two parts.  All       *)
(* threads share the one csv.writer made at line 220 and no lock is taken  *)
(* around lines 140-149: writerow first fills the writer's record buffer,  *)
(* converting the list and set fields (keywords, tags, meta_keywords) with *)
(* str(), and then hands the line to cleanfile.write.  Spec takes the call *)
(* as one step; RaceSpec lets another thread run between the two parts.    *)
(***************************************************************************)
\* Lines 130-149 up to the point where writerow has filled the record buffer.
ClassifyRace(w) ==
    /\ pc[w] = "classify"
    /\ IF /\ Ok(response[w])
          /\ DownloadState(outcome[url[w]]) = 2
          /\ ~DateTimeRaises(outcome[url[w]])
          /\ files = "open"
       THEN /\ downloads' = [downloads EXCEPT ![url[w]] = @ + 1]
            /\ torn' = (torn \/ \E v \in Workers : v # w /\ pc[v] = "writerow")
            /\ pc' = [pc EXCEPT ![w] = "writerow"]
            /\ UNCHANGED <<total_urls, args_threads, max_retries, outcome, mainpc,
                           files, cleanfile, errorfile, q, unfinished, threads,
                           started, url, response, attempts, gets, successful_urls>>
       ELSE Classify(w)

\* Line 140, second part: the line is written to the clean file.
WriteRow(w) ==
    /\ pc[w] = "writerow"
    /\ IF files = "open"
       THEN /\ cleanfile' =
                 Append(cleanfile, [url |-> url[w], text |-> ArticleText(outcome[url[w]])])
            /\ pc' = [pc EXCEPT ![w] = "task_done"]
       ELSE /\ pc' = [pc EXCEPT ![w] = "dead"]
            /\ UNCHANGED cleanfile
    /\ UNCHANGED <<torn, downloads, total_urls, args_threads, max_retries, outcome,
                   mainpc, files, errorfile, q, unfinished, threads, started, url,
                   response, attempts, gets, successful_urls>>

NextRace ==
    \/ OpenFiles
    \/ Populate
    \/ StartThread
    \/ Join
    \/ clean_up_output
    \/ Report
    \/ \E w \in Workers : Check(w)
    \/ \E w \in Workers : Get(w)
    \/ \E w \in Workers : Fetch(w)
    \/ \E w \in Workers : ClassifyRace(w)
    \/ \E w \in Workers : WriteRow(w)
    \/ \E w \in Workers : TaskDone(w)

RaceSpec == Init /\ [][NextRace]_vars

TypeOK ==
    /\ total_urls \in 0..MaxURLs
    /\ mainpc \in {"open", "populate", "launch", "reconcile", "report", "reported", "crashed"}
    /\ files \in {"unopened", "open", "closed"}
    /\ \A w \in Workers :
         pc[w] \in {"unstarted", "check", "get", "fetch", "classify", "writerow", "task_done", "exited",
                  "dead"}

(***************************************************************************)
(* Vocabulary of the properties.                                           *)
(***************************************************************************)
\* main() has not yet returned from q.join().
BeforeDrain == mainpc \in {"open", "populate", "launch"}

\* Number of data rows of a file written for URL i.
RowsFor(file, i) == Cardinality({n \in 1..Len(file) : file[n].url = i})

\* Number of data rows of a file (0 before the header is written).
DataRows(file) == IF file = <<>> THEN 0 ELSE Len(file) - 1

\* Thread w is between q.get() and q.task_done().
Busy(w) == pc[w] \in {"fetch", "classify", "task_done"}

\* Thread w can still take an item: it is at the loop test or at q.get().
Free(w) == pc[w] \in {"check", "get"}

HasText(row) == row.text # ""

(***************************************************************************)
(* C1 (as claimed): under fair scheduling, whenever at least one thread is *)
(* requested, main() eventually returns from q.join() and goes on to       *)
(* clean_up_output and the summary, whatever the per-URL outcomes.         *)
(* Checked under FairSpec.                                                 *)
(***************************************************************************)
C1_EventuallyDrained == <>(args_threads = 0 \/ ~BeforeDrain)

(***************************************************************************)
(* C2 (as claimed): no failure ends a thread while it holds an item it has *)
(* not marked done: every thread that took an item goes on to q.task_done. *)
(***************************************************************************)
C2_NoWorkerAborts == \A w \in Workers : ~(pc[w] = "dead" /\ url[w] # -1)

(***************************************************************************)
(* C3 (as claimed): when q.join() has returned, every URL has a row in the *)
(* clean file or a row in the error file.                                   *)
(***************************************************************************)
C3_EveryItemRecorded ==
    mainpc = "reconcile" =>
        \A i \in Items : RowsFor(cleanfile, i) + RowsFor(errorfile, i) >= 1

(***************************************************************************)
(* C4: every item is returned by at most one q.get() call, and no two      *)
(* threads hold the same item.                                             *)
(***************************************************************************)
C4_DequeuedAtMostOnce ==
    /\ \A i \in Items : gets[i] <= 1
    /\ \A v, w \in Workers : (v # w /\ url[v] # -1) => url[v] # url[w]

C4_Witness ==
    /\ total_urls >= 2
    /\ \A i \in Items : gets[i] = 1
    /\ \E v, w \in Workers : v # w /\ Busy(v) /\ Busy(w)

(***************************************************************************)
(* C5: every URL has at most one row in the clean file and the error file  *)
(* together, so the data rows of both files never exceed total_urls.       *)
(***************************************************************************)
C5_AtMostOneRowPerItem ==
    /\ \A i \in Items : RowsFor(cleanfile, i) + RowsFor(errorfile, i) <= 1
    /\ DataRows(cleanfile) + DataRows(errorfile) <= total_urls

C5_Witness ==
    /\ total_urls >= 2
    /\ DataRows(cleanfile) >= 1
    /\ DataRows(errorfile) >= 1
    /\ DataRows(cleanfile) + DataRows(errorfile) = total_urls

(***************************************************************************)
(* C6: every step that leaves main() past q.join() leaves every item       *)
(* dequeued and marked done and no thread between q.get() and              *)
(* q.task_done(), and appends no row to either file (only clean_up_output  *)
(* changes the clean file).                                                *)
(***************************************************************************)
C6_DrainedMeansProcessed ==
    [][(mainpc' \notin {"open", "populate", "launch"}) =>
          /\ q' = <<>>
          /\ unfinished' = 0
          /\ \A i \in Items : gets'[i] = 1
          /\ \A w \in Workers : pc'[w] \notin {"fetch", "classify", "task_done"}
          /\ errorfile' = errorfile
          /\ (cleanfile' = cleanfile \/ mainpc = "reconcile")]_vars

C6_Witness ==
    /\ mainpc = "reconcile"
    /\ total_urls >= 2
    /\ DataRows(cleanfile) + DataRows(errorfile) = total_urls
    /\ \E w \in Workers : pc[w] = "get"

(***************************************************************************)
(* C7 (as claimed): with an empty input list the run ends with the         *)
(* summary; computing the success rate does not raise.                     *)
(***************************************************************************)
C7_EmptyInputReports == total_urls = 0 => mainpc # "crashed"

(***************************************************************************)
(* C8: the number of threads is min(args.threads, total_urls); that many   *)
(* are started, no more, and the count stays once the loop is over.  When  *)
(* more threads are requested than there are URLs, total_urls threads run  *)
(* and, while items are left in the queue, there are at least as many      *)
(* threads still to start or free to take one.                             *)
(***************************************************************************)
C8_WorkerCount ==
    /\ mainpc \notin {"open", "populate"} => threads = Min(args_threads, total_urls)
    /\ started <= Min(args_threads, total_urls)
    /\ Cardinality({w \in Workers : pc[w] # "unstarted"}) = started
    /\ ~BeforeDrain => started = Min(args_threads, total_urls)
    /\ (args_threads > total_urls /\ mainpc \notin {"open", "populate"}) =>
          /\ threads = total_urls
          /\ Len(q) <= (threads - started) + Cardinality({w \in Workers : Free(w)})
          /\ ~BeforeDrain => (started = total_urls /\ \A i \in Items : gets[i] = 1)

C8_Witness ==
    /\ args_threads > total_urls
    /\ total_urls >= 1
    /\ started = total_urls
    /\ mainpc = "reported"

(***************************************************************************)
(* C9 (as claimed): clean_up_output leaves in the clean file exactly the   *)
(* rows the threads wrote whose text is not empty, in their order, and     *)
(* returns their number.                                                   *)
(***************************************************************************)
C9_ReconcileKeepsNonEmpty ==
    [][(mainpc = "reconcile" /\ mainpc' = "report") =>
          /\ cleanfile' = <<CleanHeader>> \o SelectSeq(Tail(cleanfile), HasText)
          /\ successful_urls' = Len(cleanfile') - 1]_vars

(***************************************************************************)
(* C10: session.get sends at most max_retries + 1 requests for a URL; a    *)
(* further request follows only a connection error or an answer with       *)
(* status 500, 502, 503 or 504; and with max_retries = 0 a URL whose first *)
(* request fails that way gets its error row after exactly one request.    *)
(***************************************************************************)
C10_Transient(kind, n) ==
    ConnError(kind, n) \/ Status(kind, n) \in {500, 502, 503, 504}

C11_Reason(kind) ==
    CASE kind = "NoScheme" -> "MissingSchema"
      [] kind = "BadScheme" -> "InvalidSchema"
      [] kind = "RedirectLoop" -> "TooManyRedirects"
      [] kind = "Down" -> "ConnectionError"
      [] kind = "Busy" -> "RetryError"
      [] kind = "NotFound" -> "404"
      [] kind = "Flaky" -> IF max_retries = 0 THEN "ConnectionError" ELSE "none"
      [] OTHER -> "none"

\* Does a URL of this kind get a clean row from its thread?
C11_Clean(kind) ==
    \/ kind \in {"PageEmpty", "PageNA", "PageBody"}
    \/ kind = "Flaky" /\ max_retries > 0

\* The text of the clean row survives clean_up_output.
C11_Kept(kind) == kind \in {"PageBody", "Flaky"}

C11_RowSet(file) == {file[n] : n \in 2..Len(file)}

C11_PartitionIsFunctionOfOutcome ==
    ~BeforeDrain =>
        /\ C11_RowSet(errorfile) =
             {[url |-> i, error |-> C11_Reason(outcome[i])] :
                i \in {j \in Items : C11_Reason(outcome[j]) # "none"}}
        /\ {r.url : r \in C11_RowSet(cleanfile)} =
             {i \in Items : /\ C11_Clean(outcome[i])
                            /\ mainpc = "reconcile" \/ C11_Kept(outcome[i])}

C11_Witness ==
    /\ mainpc = "reported"
    /\ args_threads >= 2
    /\ max_retries >= 1
    /\ \E i, j \in Items : outcome[i] = "Flaky" /\ outcome[j] = "Down"

C13_NoThreadBlockedInGet == \A w \in Workers : ~(pc[w] = "get" /\ q = <<>>)

(***************************************************************************)
(* C14: a URL for which session.get raises MissingSchema, InvalidSchema or *)
(* TooManyRedirects is sent at most one request whatever max_retries is    *)
(* (none for the two schema errors), gets exactly one error row, (url,     *)
(* name of the exception), and no clean row; article.download() is not     *)
(* called for it.                                                          *)
(***************************************************************************)
C14_Name(kind) ==
    CASE kind = "NoScheme" -> "MissingSchema"
      [] kind = "BadScheme" -> "InvalidSchema"
      [] kind = "RedirectLoop" -> "TooManyRedirects"
      [] OTHER -> "none"

C14_TerminalErrorRecordedOnce ==
    \A i \in Items :
        C14_Name(outcome[i]) # "none" =>
            /\ attempts[i] = IF outcome[i] = "RedirectLoop" THEN 1 ELSE 0
            /\ downloads[i] = 0
            /\ RowsFor(cleanfile, i) = 0
            /\ RowsFor(errorfile, i) = 1
            /\ \E n \in 1..Len(errorfile) :
                 errorfile[n] = [url |-> i, error |-> C14_Name(outcome[i])]

C14_Witness ==
    /\ max_retries >= 1
    /\ \E i, j \in Items :
         /\ outcome[i] = "NoScheme"
         /\ outcome[j] = "RedirectLoop"
         /\ RowsFor(errorfile, i) = 1
         /\ RowsFor(errorfile, j) = 1

(***************************************************************************)
(* C15.  A URL is settled when no thread is still fetching or classifying  *)
(* it; its fetch ended with a response that is not OK when the last        *)
(* request was answered with a 4xx or 5xx status.                          *)
(***************************************************************************)
C15_Settled(i) ==
    /\ attempts[i] >= 1
    /\ \A w \in Workers : ~(url[w] = i /\ pc[w] \in {"fetch", "classify"})

C15_BadStatus(i) ==
    /\ outcome[i] # "RedirectLoop"
    /\ ~ConnError(outcome[i], attempts[i])
    /\ Status(outcome[i], attempts[i]) >= 400

C15_Code(i) ==
    CASE Status(outcome[i], attempts[i]) = 404 -> "404"
      [] Status(outcome[i], attempts[i]) = 503 -> "503"
      [] OTHER -> "other"

(***************************************************************************)
(* C15 (as claimed): every URL whose fetch ended with a response that is   *)
(* not OK has exactly one error row, whose reason is the status code, and  *)
(* no clean row; for every status code, 500/502/503/504 included, and      *)
(* every max_retries.                                                      *)
(***************************************************************************)
C15_StatusCodeRecorded ==
    \A i \in Items :
        (C15_Settled(i) /\ C15_BadStatus(i)) =>
            /\ RowsFor(cleanfile, i) = 0
            /\ RowsFor(errorfile, i) = 1
            /\ \E n \in 1..Len(errorfile) :
                 errorfile[n] = [url |-> i, error |-> C15_Code(i)]

(***************************************************************************)
(* C15 (amended): every URL whose fetch ended with a response that is not  *)
(* OK has exactly one error row and no clean row, for every max_retries;   *)
(* the reason is the status code, except for the codes 500, 502, 503 and   *)
(* 504 of the retry forcelist, for which it is "RetryError".               *)
(***************************************************************************)
C15_StatusOrRetryErrorRecorded ==
    \A i \in Items :
        (C15_Settled(i) /\ C15_BadStatus(i)) =>
            /\ RowsFor(cleanfile, i) = 0
            /\ RowsFor(errorfile, i) = 1
            /\ \E n \in 1..Len(errorfile) :
                 errorfile[n] =
                   [url |-> i,
                    error |-> IF Status(outcome[i], attempts[i]) \in {500, 502, 503, 504}
                              THEN "RetryError"
                              ELSE C15_Code(i)]

C15_Witness ==
    \E i, j \in Items :
        /\ outcome[i] = "NotFound"
        /\ outcome[j] = "Busy"
        /\ C15_Settled(i)
        /\ C15_Settled(j)
        /\ attempts[j] = max_retries + 1

(***************************************************************************)
(* C16 (as claimed): no URL is requested outside session.get: the article  *)
(* is built from the response of the session and article.download() sends *)
(* no request of its own.                                                  *)
(***************************************************************************)
C16_NoSecondRequest == \A i \in Items : downloads[i] = 0

(***************************************************************************)
(* C17: both files are open exactly from the step that writes their header *)
(* rows to the return of q.join(): nothing is enqueued and no thread is    *)
(* started before the headers are written, each file holds its header row  *)
(* once, as its first row, the files are closed only when every item is    *)
(* marked done, and a thread that holds an item finds them open.           *)
(***************************************************************************)
C17_SinkLifecycle ==
    /\ files = "unopened" <=> mainpc = "open"
    /\ files = "open" <=> mainpc \in {"populate", "launch"}
    /\ files = "closed" <=> ~BeforeDrain
    /\ files = "unopened" =>
          /\ cleanfile = <<>> /\ errorfile = <<>>
          /\ q = <<>> /\ started = 0
          /\ \A i \in Items : gets[i] = 0
    /\ files # "unopened" =>
          /\ cleanfile # <<>> /\ errorfile # <<>>
          /\ Head(cleanfile) = CleanHeader /\ RowsFor(cleanfile, -1) = 1
          /\ Head(errorfile) = ErrorHeader /\ RowsFor(errorfile, -1) = 1
    /\ files = "closed" =>
          /\ unfinished = 0 /\ q = <<>>
          /\ \A w \in Workers : ~Busy(w)
    /\ \A w \in Workers : Busy(w) => files = "open"

C17_Witness ==
    /\ files = "closed"
    /\ DataRows(cleanfile) >= 1
    /\ DataRows(errorfile) >= 1

(***************************************************************************)
(* C18: once the queue is filled, the items taken from the queue and not   *)
(* yet marked done are those held by a thread; they are at most as many as *)
(* the threads started, hence at most min(args.threads, total_urls); and   *)
(* unfinished_tasks is total_urls minus the number of items marked done,   *)
(* which never exceeds the number of items taken.                          *)
(***************************************************************************)
C18_Held == {i \in Items : \E w \in Workers : url[w] = i}

C18_Done == {i \in Items : gets[i] >= 1 /\ \A w \in Workers : url[w] # i}

C18_BoundedInFlight ==
    mainpc \notin {"open", "populate"} =>
        /\ Cardinality(C18_Held) <= started
        /\ started <= Min(args_threads, total_urls)
        /\ unfinished = total_urls - Cardinality(C18_Done)
        /\ unfinished - Len(q) = Cardinality(C18_Held)
        /\ Cardinality(C18_Done) <= total_urls - Len(q)
        /\ unfinished >= 0

C18_Witness ==
    /\ Cardinality(C18_Held) = 2
    /\ Min(args_threads, total_urls) = 2
    /\ unfinished = 2

(***************************************************************************)
(* C19: every row a thread appends carries the URL that thread holds; a    *)
(* clean row is appended only for an OK response whose article download    *)
(* succeeded; an error row is appended only with one of the five caught    *)
(* exception names, raised by session.get for that URL, or with the status *)
(* code of a response that is not OK.                                      *)
(***************************************************************************)
C19_Raised(kind, n) ==
    CASE kind = "NoScheme" -> "MissingSchema"
      [] kind = "BadScheme" -> "InvalidSchema"
      [] kind = "RedirectLoop" -> "TooManyRedirects"
      [] kind = "BadURL" -> "InvalidURL"
      [] ConnError(kind, n) -> "ConnectionError"
      [] Status(kind, n) \in {500, 502, 503, 504} -> "RetryError"
      [] OTHER -> "none"

C19_RowProvenance ==
    [][mainpc = "launch" =>
          /\ cleanfile' # cleanfile =>
                \E w \in Workers :
                    /\ pc'[w] # pc[w]
                    /\ cleanfile' =
                         Append(cleanfile,
                                [url |-> url[w], text |-> cleanfile'[Len(cleanfile')].text])
                    /\ response[w] \notin {Unset, None}
                    /\ response[w] < 400
                    /\ DownloadState(outcome[url[w]]) = 2
          /\ errorfile' # errorfile =>
                \E w \in Workers :
                    LET e == errorfile'[Len(errorfile')].error
                    IN /\ pc'[w] # pc[w]
                       /\ errorfile' = Append(errorfile, [url |-> url[w], error |-> e])
                       /\ \/ /\ e \in {"ConnectionError", "InvalidSchema",
                                       "MissingSchema", "TooManyRedirects",
                                       "RetryError"}
                             /\ e = C19_Raised(outcome'[url[w]], attempts'[url[w]])
                          \/ /\ e \in {"404", "503"}
                             /\ pc[w] = "classify"
                             /\ Status(outcome[url[w]], attempts[url[w]]) >= 400]_vars

C19_Witness ==
    /\ mainpc = "launch"
    /\ DataRows(cleanfile) >= 1
    /\ \E n \in 2..Len(errorfile) : errorfile[n].error = "RetryError"

====
